---- MODULE Spec2Model ----
(***************************************************************************)
(* The batched MCTS evaluator of core/evaluators/mcts.py (the flat arena   *)
(* with explicit index bookkeeping), driven by a caller that searches,     *)
(* commits a move and promotes the subtree of the committed move.          *)
(*                                                                         *)
(* Numbers.  n_vals and w_vals hold small integers (evaluator values and   *)
(* rewards are -1, 0 or +1).  A prior is kept as an integer number of      *)
(* 1/PDen units; NaN stands for the float NaN a softmax over an all-masked *)
(* row produces.  PUCT scores are compared exactly, without rounding.      *)
(***************************************************************************)
EXTENDS Integers, Sequences, FiniteSets, TLC

VARIABLES
    key,             \* MCTSState.key
    idx_action_map,  \* MCTSState.idx_action_map : slot -> action -> slot (0 = empty)
    p_vals,          \* MCTSState.p_vals         : slot -> action -> prior
    n_vals,          \* MCTSState.n_vals         : slot -> visit count
    w_vals,          \* MCTSState.w_vals         : slot -> cumulative value
    visits,          \* MCTSState.visits         : ply -> slot on the current path
    depth,           \* MCTSState.depth
    max_depth,       \* MCTSState.max_depth
    cur_node,        \* MCTSState.cur_node
    next_empty,      \* MCTSState.next_empty
    subtrees,        \* MCTSState.subtrees
    parents,         \* MCTSState.parents
    env_state,       \* IterationState.env_state (the search's environment)
    root_state,      \* IterationState.root_state
    game,            \* the caller's environment state, passed to evaluate
    pc,              \* "idle", or "scan" while evaluate's jax.lax.scan runs
    iter,            \* index of the next scan step
    calls,           \* number of API calls made so far
    completed,       \* iterations completed since the root of a freshly reset tree
                     \* was initialised; -1 when the tree is not of that kind
    tree,            \* the MCTSTree of the engine of core/evaluators/mcts/mcts.py
    config,          \* the parameters the engine was, or is to be, constructed with
    last             \* what the last operation was and did

vars == <<key, idx_action_map, p_vals, n_vals, w_vals, visits, depth, max_depth,
          cur_node, next_empty, subtrees, parents, env_state, root_state, game,
          pc, iter, calls, completed, tree, config, last>>

----------------------------------------------------------------------------
(* Bounds of the model *)

max_nodes == 6
MaxIters == 8
MaxCalls == 4
Goal == 4
KeySpace == 3
MaxN == 2

----------------------------------------------------------------------------
(* Configuration and shapes *)

NumActions == 2
num_players == 2
puct_coeff == 1
EpsNum == 1
EpsDen == 2
WLow == 1
WHigh == 3

valid_slots == max_nodes - 1
Slots == 0 .. (max_nodes - 1)
Plies == 0 .. (valid_slots - 1)
Actions == 0 .. (NumActions - 1)
Masks == [Actions -> BOOLEAN]
PDen == EpsDen * (WLow + WHigh)
NaN == -1

----------------------------------------------------------------------------
(* Arithmetic helpers *)

Max(a, b) == IF a >= b THEN a ELSE b
Min(a, b) == IF a <= b THEN a ELSE b
Abs(a) == IF a >= 0 THEN a ELSE -a

\* the array f, tabulated once
Array(f) == f @@ <<>>

RECURSIVE Gcd(_, _)
Gcd(a, b) == IF b = 0 THEN a ELSE Gcd(b, a % b)

RECURSIVE SumTo(_, _)
\* f[0] + ... + f[k]
SumTo(f, k) == IF k < 0 THEN 0 ELSE f[k] + SumTo(f, k - 1)

\* x > y * sqrt(t), for integers x, y and t >= 1, decided without rounding
GtSqrt(x, y, t) ==
    LET g == Gcd(Abs(x), Abs(y))
        xr == IF g = 0 THEN 0 ELSE x \div g
        yr == IF g = 0 THEN 0 ELSE y \div g
    IN  IF yr >= 0 THEN xr > 0 /\ xr * xr > yr * yr * t
                   ELSE xr >= 0 \/ xr * xr < yr * yr * t

----------------------------------------------------------------------------
(* The environment and the leaf evaluator: pure collaborators.  The game   *)
(* is a two-player race: an action a moves the counter a + 1 forward, a    *)
(* move past Goal is illegal, the player who reaches Goal wins.            *)

\* strict: a variant of the game in which the last square may not be entered,
\* so that the square before it is a state with no legal action that is not terminal
EnvInit == [pos |-> 0, player |-> 0, terminated |-> FALSE, strict |-> FALSE]

EnvStep(s, a) ==
    LET np == Min(s.pos + a + 1, Goal)
    IN  [pos |-> np, player |-> (s.player + 1) % num_players, terminated |-> np = Goal,
         strict |-> s.strict]

\* the all-true mask of a finished game is the convention of the environment library
legal_action_mask(s) ==
    [a \in Actions |->
        \/ s.terminated
        \/ (~s.strict /\ s.pos + a + 1 <= Goal)
        \/ (s.strict /\ s.pos + a + 1 < Goal)]

\* env_state.reward[player]
Reward(s, player) ==
    IF ~s.terminated THEN 0
    ELSE IF player = (s.player + num_players - 1) % num_players THEN 1 ELSE -1

\* evaluate_leaf: exp(policy_logits) and the value estimate of an observation
EvalWeights(s) == [a \in Actions |-> IF (s.pos + a) % 2 = 0 THEN WLow ELSE WHigh]
EvalValue(s) == (s.pos % 3) - 1

\* the softmax of the logits as the evaluator returns them, without the mask
Softmax_unmasked(weights, legal) ==
    [a \in Actions |-> (PDen * weights[a]) \div SumTo(weights, NumActions - 1)]

\* jax.nn.softmax(jnp.where(legal_actions, policy_logits, -inf))
Softmax(weights, legal) ==
    LET masked == [a \in Actions |-> IF legal[a] THEN weights[a] ELSE 0]
        total == SumTo(masked, NumActions - 1)
    IN  IF total = 0 THEN [a \in Actions |-> NaN]
        ELSE [a \in Actions |-> (PDen * masked[a]) \div total]

\* jax.random.split and jax.random.dirichlet as functions of the key
SplitDir(k) == (2 * k + 1) % KeySpace
SplitNew(k) == (2 * k + 2) % KeySpace
Dirichlet(k) ==
    [a \in Actions |->
        IF k % 3 = 2 THEN PDen \div NumActions
        ELSE IF a = k % 3 THEN (3 * PDen) \div 4
        ELSE PDen \div (4 * (NumActions - 1))]

----------------------------------------------------------------------------
(* MCTSState as a record, and the operations as functions on it *)

State ==
    [key |-> key, idx_action_map |-> idx_action_map, p_vals |-> p_vals,
     n_vals |-> n_vals, w_vals |-> w_vals, visits |-> visits, depth |-> depth,
     max_depth |-> max_depth, cur_node |-> cur_node, next_empty |-> next_empty,
     subtrees |-> subtrees, parents |-> parents]

Install(st) ==
    /\ key' = st.key
    /\ idx_action_map' = st.idx_action_map
    /\ p_vals' = st.p_vals
    /\ n_vals' = st.n_vals
    /\ w_vals' = st.w_vals
    /\ visits' = st.visits
    /\ depth' = st.depth
    /\ max_depth' = st.max_depth
    /\ cur_node' = st.cur_node
    /\ next_empty' = st.next_empty
    /\ subtrees' = st.subtrees
    /\ parents' = st.parents

StateIs(st) ==
    /\ key = st.key
    /\ idx_action_map = st.idx_action_map
    /\ p_vals = st.p_vals
    /\ n_vals = st.n_vals
    /\ w_vals = st.w_vals
    /\ visits = st.visits
    /\ depth = st.depth
    /\ max_depth = st.max_depth
    /\ cur_node = st.cur_node
    /\ next_empty = st.next_empty
    /\ subtrees = st.subtrees
    /\ parents = st.parents

\* a pattern that credits every ply as the root's
reward_indices_all_root == [k \in Plies |-> 1]

\* [1, 0, 1, 0, ...] for two players
reward_indices == [k \in Plies |-> IF k % num_players = 0 THEN 1 ELSE 0]

\* a path record that does not start at the root slot
init_visits_without_root == [k \in Plies |-> 0]

\* visits of a search about to start: the root slot at ply 0
init_visits == [k \in Plies |-> IF k = 0 THEN 1 ELSE 0]

\* reset with the allocator pointer left on the root slot
reset_pointer_on_root(k) ==
    [key |-> k,
     idx_action_map |-> [s \in Slots |-> [a \in Actions |-> 0]],
     p_vals |-> [s \in Slots |-> [a \in Actions |-> 0]],
     n_vals |-> [s \in Slots |-> 0],
     w_vals |-> [s \in Slots |-> 0],
     visits |-> init_visits,
     depth |-> 1,
     max_depth |-> 0,
     cur_node |-> 1,
     next_empty |-> 1,
     subtrees |-> [s \in Slots |-> 0],
     parents |-> [s \in Slots |-> 0]]

reset(k) ==
    [key |-> k,
     idx_action_map |-> [s \in Slots |-> [a \in Actions |-> 0]],
     p_vals |-> [s \in Slots |-> [a \in Actions |-> 0]],
     n_vals |-> [s \in Slots |-> 0],
     w_vals |-> [s \in Slots |-> 0],
     visits |-> init_visits,
     depth |-> 1,
     max_depth |-> 0,
     cur_node |-> 1,
     next_empty |-> 2,
     subtrees |-> [s \in Slots |-> 0],
     parents |-> [s \in Slots |-> 0]]

\* reset_search that returns to the root but keeps the path record and the depth
reset_search_keeping_path(st) ==
    [st EXCEPT !.cur_node = 1]

reset_search(st) ==
    [st EXCEPT !.depth = 1, !.cur_node = 1, !.visits = init_visits]


----------------------------------------------------------------------------
(* Selection *)

\* the comparison with the textbook exploration term sqrt(sum visits)
PuctGreater_textbook(vis, w, p, a, b) ==
    LET na == Max(vis[a], 1)
        nb == Max(vis[b], 1)
        t == SumTo(vis, NumActions - 1)
        x == (w[a] * nb - w[b] * na) * PDen * (1 + vis[a]) * (1 + vis[b])
        y == puct_coeff * (p[b] * (1 + vis[a]) - p[a] * (1 + vis[b])) * na * nb
    IN  GtSqrt(x, y, t)

\* score_a > score_b for two finite scores, where
\* score = w / clip(visits, 1) + puct_coeff * p * sqrt(1 + sum visits) / (1 + visits)
PuctGreater(vis, w, p, a, b) ==
    LET na == Max(vis[a], 1)
        nb == Max(vis[b], 1)
        t == 1 + SumTo(vis, NumActions - 1)
        x == (w[a] * nb - w[b] * na) * PDen * (1 + vis[a]) * (1 + vis[b])
        y == puct_coeff * (p[b] * (1 + vis[a]) - p[a] * (1 + vis[b])) * na * nb
    IN  GtSqrt(x, y, t)

\* jnp.argmax: the first NaN if there is one, else the first maximum;
\* nan[a]: the score is NaN, inf[a]: the score is -inf, gt[a][b]: score_a > score_b
ArgMax(nan, inf, gt) ==
    IF \E a \in Actions : nan[a]
    THEN CHOOSE a \in Actions : nan[a] /\ \A b \in Actions : nan[b] => a <= b
    ELSE LET more(a, b) == ~inf[a] /\ (inf[b] \/ gt[a][b])
         IN  CHOOSE a \in Actions :
                \A b \in Actions : b # a => ~more(b, a) /\ (b < a => more(a, b))

\* the selector without the legal-action mask
choose_with_puct_unmasked(st, legal_actions) ==
    LET row == st.idx_action_map[st.cur_node]
        vis == [a \in Actions |-> IF row[a] > 0 THEN st.n_vals[row[a]] ELSE 0]
        w == [a \in Actions |-> IF row[a] > 0 THEN st.w_vals[row[a]] ELSE 0]
        p == st.p_vals[st.cur_node]
        nan == [a \in Actions |-> p[a] = NaN]
        inf == [a \in Actions |-> FALSE]
        gt == [a \in Actions |-> [b \in Actions |-> PuctGreater(vis, w, p, a, b)]]
    IN  ArgMax(nan, inf, gt)

choose_with_puct(st, legal_actions) ==
    LET row == st.idx_action_map[st.cur_node]
        vis == [a \in Actions |-> IF row[a] > 0 THEN st.n_vals[row[a]] ELSE 0]
        w == [a \in Actions |-> IF row[a] > 0 THEN st.w_vals[row[a]] ELSE 0]
        p == st.p_vals[st.cur_node]
        nan == [a \in Actions |-> legal_actions[a] /\ p[a] = NaN]
        inf == [a \in Actions |-> ~legal_actions[a]]
        gt == [a \in Actions |-> [b \in Actions |-> PuctGreater(vis, w, p, a, b)]]
    IN  ArgMax(nan, inf, gt)

----------------------------------------------------------------------------
(* One step of the scan *)

\* traverse without the arena bound: a missing child is always allocated
traverse_unbounded(st, action) ==
    LET old == st.idx_action_map[st.cur_node][action]
        unvisited == old = 0
        master_action_idx == IF unvisited THEN st.next_empty ELSE old
    IN  [state |->
            [st EXCEPT
                !.next_empty = IF unvisited THEN st.next_empty + 1 ELSE st.next_empty,
                !.idx_action_map[st.cur_node][action] = master_action_idx,
                !.visits = IF st.depth \in Plies
                           THEN [st.visits EXCEPT ![st.depth] = master_action_idx]
                           ELSE st.visits,
                !.parents[master_action_idx] = st.cur_node,
                !.cur_node = master_action_idx],
         unvisited |-> unvisited]

traverse(st, action) ==
    LET old == st.idx_action_map[st.cur_node][action]
        unvisited == old = 0
        in_bounds == ~(st.next_empty >= max_nodes /\ unvisited)
        master_action_idx == IF in_bounds /\ unvisited THEN st.next_empty ELSE old
    IN  [state |->
            [st EXCEPT
                !.next_empty = IF in_bounds /\ unvisited THEN st.next_empty + 1
                               ELSE st.next_empty,
                !.idx_action_map[st.cur_node][action] = master_action_idx,
                \* a scatter outside the array is dropped
                !.visits = IF st.depth \in Plies
                           THEN [st.visits EXCEPT ![st.depth] = master_action_idx]
                           ELSE st.visits,
                !.parents[master_action_idx] = st.cur_node,
                !.cur_node = master_action_idx],
         unvisited |-> unvisited]

\* leaf_inc that also counts the unused plies of the path record
leaf_inc_of_every_ply(path, is_leaf) ==
    Array([k \in Plies |-> IF is_leaf /\ path[k] >= 0 THEN 1 ELSE 0])

\* leaf_inc that counts the visit at the deepest ply of the path only
leaf_inc_of_last_ply(path, is_leaf) ==
    Array([k \in Plies |->
              IF is_leaf /\ path[k] > 0 /\ (\A j \in Plies : j > k => path[j] = 0)
              THEN 1 ELSE 0])

\* leaf_inc: 1 for every ply of the recorded path when the step ends at a leaf
leaf_inc_of(path, is_leaf) ==
    Array([k \in Plies |-> IF is_leaf /\ path[k] > 0 THEN 1 ELSE 0])

\* the return of iterate, given the state after traverse and the stepped environment
iterate_update(st, env, root, action, unvisited, is_leaf, leaf_inc, value) ==
    LET backprop_rewards ==
            [k \in Plies |->
                leaf_inc[k] * (value * reward_indices[k]
                               + (-value) * (1 - reward_indices[k]))]
        \* arr.at[visits].add(upd): every ply adds to the slot it names
        added(upd, s) ==
            SumTo([k \in Plies |-> IF st.visits[k] = s THEN upd[k] ELSE 0],
                  valid_slots - 1)
    IN  [state |->
            [st EXCEPT
                !.p_vals[st.cur_node] = Softmax(EvalWeights(env), legal_action_mask(env)),
                !.n_vals = [s \in Slots |-> st.n_vals[s] + added(leaf_inc, s)],
                !.w_vals = [s \in Slots |-> st.w_vals[s] + added(backprop_rewards, s)],
                !.depth = IF is_leaf THEN 1 ELSE st.depth + 1,
                !.max_depth = Max(st.depth, st.max_depth),
                !.visits = [k \in Plies |->
                               IF k >= 1 /\ is_leaf THEN 0 ELSE st.visits[k]],
                !.cur_node = IF is_leaf THEN 1 ELSE st.cur_node],
         env_state |-> IF is_leaf THEN root ELSE env,
         action |-> action,
         is_leaf |-> is_leaf,
         unvisited |-> unvisited]

\* iterate that backpropagates the evaluator's estimate at a terminal step too
iterate_step_without_reward(tr, env, root, action) ==
    iterate_update(tr.state, env, root, action, tr.unvisited,
                   env.terminated \/ tr.unvisited,
                   leaf_inc_of(tr.state.visits, env.terminated \/ tr.unvisited),
                   EvalValue(env))

\* iterate whose leaf test looks at `unvisited` alone
iterate_step_past_terminal(tr, env, root, action) ==
    iterate_update(tr.state, env, root, action, tr.unvisited,
                   tr.unvisited,
                   leaf_inc_of(tr.state.visits, tr.unvisited),
                   IF env.terminated THEN Reward(env, root.player) ELSE EvalValue(env))

\* iterate, from the environment step on
iterate_step(tr, env, root, action) ==
    iterate_update(tr.state, env, root, action, tr.unvisited,
                   env.terminated \/ tr.unvisited,
                   leaf_inc_of(tr.state.visits, env.terminated \/ tr.unvisited),
                   IF env.terminated THEN Reward(env, root.player) ELSE EvalValue(env))

\* iterate, once the action is chosen
iterate_action(st0, env0, root, action) ==
    iterate_step(traverse(st0, action), EnvStep(env0, action), root, action)

iterate(st0, env0, root) ==
    iterate_action(st0, env0, root, choose_with_puct(st0, legal_action_mask(env0)))

\* evaluate, up to the start of the scan
evaluate_root(st0, env) ==
    LET st == reset_search(st0)
        policy == Softmax(EvalWeights(env), legal_action_mask(env))
        dir_noise == Dirichlet(SplitDir(st.key))
        noisy_policy ==
            [a \in Actions |->
                IF policy[a] = NaN THEN NaN
                ELSE ((EpsDen - EpsNum) * policy[a] + EpsNum * dir_noise[a]) \div EpsDen]
    IN  [st EXCEPT !.key = SplitNew(st.key), !.p_vals[1] = noisy_policy]


----------------------------------------------------------------------------
(* Subtree promotion *)

RECURSIVE propagate_subtrees(_, _, _)
\* `rounds` steps of the label scan
propagate_subtrees(labels, par, rounds) ==
    IF rounds = 0 THEN labels
    ELSE propagate_subtrees(
            Array([s \in Slots |->
                      IF labels[par[s]] > 1 THEN labels[par[s]] ELSE labels[s]]),
            par, rounds - 1)

\* label propagation cut short after one round
propagate_root_subtrees_one_round(st) ==
    LET par == [st.parents EXCEPT ![0] = 0]
    IN  [st EXCEPT !.parents = par,
                   !.subtrees = propagate_subtrees(Array([s \in Slots |-> s]), par, 1)]

propagate_root_subtrees(st) ==
    LET par == [st.parents EXCEPT ![0] = 0]
    IN  [st EXCEPT !.parents = par,
                   !.subtrees = propagate_subtrees(Array([s \in Slots |-> s]), par,
                                                   max_nodes)]

\* arr.at[idx].set(vals): slot j takes the value of the i with idx[i] = j.  With
\* several such i the backend keeps any one of them: `win` is the one it keeps.
ScatterSet(arr, idx, vals, win) ==
    Array([j \in Slots |->
        IF idx[win] = j THEN vals[win]
        ELSE IF \E i \in Slots : idx[i] = j THEN vals[CHOOSE i \in Slots : idx[i] = j]
        ELSE arr[j]])

\* arr.at[erase].set(zero)
EraseSet(arr, erase, zero) ==
    Array([j \in Slots |-> IF \E i \in Slots : erase[i] = j THEN zero ELSE arr[j]])

\* translation that numbers the retained slots 2, 3, ...
subtree_translation_from_two(st, action) ==
    LET subtree_master_idx == st.idx_action_map[1][action]
        populated == subtree_master_idx > 1
        new_nodes == [s \in Slots |-> IF st.subtrees[s] = subtree_master_idx THEN 1 ELSE 0]
    IN  Array([s \in Slots |->
                  IF populated THEN new_nodes[s] * (1 + SumTo(new_nodes, s)) ELSE 0])

\* translation: the new slot of every retained slot, 0 for the others
subtree_translation(st, action) ==
    LET subtree_master_idx == st.idx_action_map[1][action]
        populated == subtree_master_idx > 1
        new_nodes == [s \in Slots |-> IF st.subtrees[s] = subtree_master_idx THEN 1 ELSE 0]
    IN  Array([s \in Slots |->
                  IF populated THEN new_nodes[s] * SumTo(new_nodes, s) ELSE 0])

\* old_subtree_idxs: a retained slot's own index, 0 for the others
old_subtree_idxs_of(st, action) ==
    Array([s \in Slots |->
              IF st.subtrees[s] = st.idx_action_map[1][action] THEN s ELSE 0])

\* jnp.amax(translation) + 1, before it is clipped
raw_next_empty(translation) ==
    1 + (CHOOSE m \in Slots :
            (\E s \in Slots : translation[s] = m)
            /\ \A s \in Slots : translation[s] <= m)

\* erase that starts one slot early, at the last retained slot
erase_of_one_early(raw) == Array([s \in Slots |-> IF s < raw - 1 THEN 0 ELSE s])

\* erase that names no slot above the new next_empty
erase_of_nothing(raw) == Array([s \in Slots |-> 0])

\* erase: 0 for the slots below the new next_empty, a slot's own index above
erase_of(raw) == Array([s \in Slots |-> IF s < raw THEN 0 ELSE s])

\* arr.at[translation].set(arr[old_subtree_idxs]).at[erase].set(zero)
moved_vals(arr, translation, old_subtree_idxs, erase, zero, win) ==
    EraseSet(ScatterSet(arr, translation,
                        Array([i \in Slots |-> arr[old_subtree_idxs[i]]]), win),
             erase, zero)

\* the edge rows moved without translating the slot indices they hold
moved_idx_action_map_untranslated(map, translation, erase, win) ==
    EraseSet(ScatterSet(map, translation, map, win), erase, [a \in Actions |-> 0])

\* idx_action_map.at[translation].set(translation[idx_action_map]).at[erase].set(0)
moved_idx_action_map(map, translation, erase, win) ==
    EraseSet(ScatterSet(map, translation,
                        Array([i \in Slots |->
                                  Array([a \in Actions |-> translation[map[i][a]]])]),
                        win),
             erase, [a \in Actions |-> 0])

\* parents.at[translation].set(translation[parents]).at[erase].set(0)
moved_parents(par, translation, erase, win) ==
    EraseSet(ScatterSet(par, translation,
                        Array([i \in Slots |-> translation[par[i]]]), win),
             erase, 0)

\* load_subtree that leaves w_vals where it was
load_subtree_apply_keeps_w(st, translation, old_subtree_idxs, raw, erase, win) ==
    [st EXCEPT
        !.n_vals = moved_vals(st.n_vals, translation, old_subtree_idxs, erase, 0, win),
        !.p_vals = moved_vals(st.p_vals, translation, old_subtree_idxs, erase,
                              [a \in Actions |-> 0], win),
        !.idx_action_map = moved_idx_action_map(st.idx_action_map, translation, erase, win),
        !.parents = moved_parents(st.parents, translation, erase, win),
        !.next_empty = Max(raw, 2),
        !.max_depth = Max(st.max_depth - 1, 1)]

\* load_subtree that leaves n_vals where it was
load_subtree_apply_keeps_n(st, translation, old_subtree_idxs, raw, erase, win) ==
    [st EXCEPT
        !.w_vals = moved_vals(st.w_vals, translation, old_subtree_idxs, erase, 0, win),
        !.p_vals = moved_vals(st.p_vals, translation, old_subtree_idxs, erase,
                              [a \in Actions |-> 0], win),
        !.idx_action_map = moved_idx_action_map(st.idx_action_map, translation, erase, win),
        !.parents = moved_parents(st.parents, translation, erase, win),
        !.next_empty = Max(raw, 2),
        !.max_depth = Max(st.max_depth - 1, 1)]

\* load_subtree, once the labels, the translation and the erase list are computed
load_subtree_apply(st, translation, old_subtree_idxs, raw, erase, win) ==
    [st EXCEPT
        !.w_vals = moved_vals(st.w_vals, translation, old_subtree_idxs, erase, 0, win),
        !.n_vals = moved_vals(st.n_vals, translation, old_subtree_idxs, erase, 0, win),
        !.p_vals = moved_vals(st.p_vals, translation, old_subtree_idxs, erase,
                              [a \in Actions |-> 0], win),
        !.idx_action_map = moved_idx_action_map(st.idx_action_map, translation, erase, win),
        !.parents = moved_parents(st.parents, translation, erase, win),
        !.next_empty = Max(raw, 2),
        !.max_depth = Max(st.max_depth - 1, 1)]

\* load_subtree, once the labels and the translation are computed
load_subtree_translated(st, translation, old_subtree_idxs, raw, win) ==
    load_subtree_apply(st, translation, old_subtree_idxs, raw, erase_of(raw), win)

\* load_subtree, once the labels are computed
load_subtree_labelled(st, translation, action, win) ==
    load_subtree_translated(st, translation, old_subtree_idxs_of(st, action),
                            raw_next_empty(translation), win)

load_subtree_propagated(st, action, win) ==
    load_subtree_labelled(st, subtree_translation(st, action), action, win)

load_subtree(st0, action, win) ==
    load_subtree_propagated(propagate_root_subtrees(st0), action, win)

\* Evaluator.reset_if_terminated
reset_if_terminated(st, terminated) ==
    IF terminated THEN reset(st.key) ELSE st

step_evaluator(st, actions, terminated, win) ==
    reset_if_terminated(load_subtree(st, actions, win), terminated)

\* get_policy: action_vists = n_vals[1]; action_vists / action_vists.sum().
\* n_vals has one entry per slot, so n_vals[1] is the root's count, a scalar (shape
\* <<>>), and the quotient is n / n; num / den stands for the float, 0 / 0 for NaN
get_policy(st) ==
    [shape |-> <<>>, num |-> st.n_vals[1], den |-> st.n_vals[1]]

----------------------------------------------------------------------------
(* The configuration of the flat-arena engine and its construction.         *)
(* dirichlet_epsilon is a numerator over EpsDen; dirichlet_alpha and          *)
(* puct_coeff are integers.                                                   *)

\* the configuration the searches of the model run with (alpha = 1, the flat
\* Dirichlet, only shapes the noise sample)
MCTSConfig ==
    [max_nodes |-> max_nodes, puct_coeff |-> puct_coeff,
     dirichlet_alpha |-> 1, dirichlet_epsilon |-> EpsNum]

\* MCTS.__init__(env, config) for an environment with num_actions actions: the
\* attributes it sets.  No statement of it, and none of the dataclass, tests a
\* field of the configuration, so it returns an engine for every input.
MCTS_init(num_actions, cfg) ==
    [config |-> cfg,
     flat_policy_size |-> num_actions,
     num_players |-> num_players,
     valid_slots |-> cfg.max_nodes - 1,
     reward_indices |->
        [k \in 0 .. (cfg.max_nodes - 2) |-> IF k % num_players = 0 THEN 1 ELSE 0]]

AllLegal == [a \in Actions |-> TRUE]

----------------------------------------------------------------------------
(* The tree of core/trees/tree.py, as the arena of the specification: slot 0 *)
(* is the null index, slot 1 the root, next_free the lowest unused slot      *)

NULL_INDEX == 0
ROOT_INDEX == 1

\* an empty tree: no node visited, the root slot reserved
TreeReset(k) ==
    [key |-> k,
     n |-> [s \in Slots |-> 0],
     w |-> [s \in Slots |-> 0],
     p |-> [s \in Slots |-> [a \in Actions |-> 0]],
     terminal |-> [s \in Slots |-> FALSE],
     embedding |-> [s \in Slots |-> EnvInit],
     edge_map |-> [s \in Slots |-> [a \in Actions |-> 0]],
     parents |-> [s \in Slots |-> 0],
     next_free |-> 2]

\* tree.at(index): the MCTSNode stored at a slot
TreeAt(t, s) ==
    [n |-> t.n[s], w |-> t.w[s], p |-> t.p[s], terminal |-> t.terminal[s],
     embedding |-> t.embedding[s]]

update_node(t, s, node) ==
    [t EXCEPT !.n[s] = node.n, !.w[s] = node.w, !.p[s] = node.p,
              !.terminal[s] = node.terminal, !.embedding[s] = node.embedding]

set_root(t, node) == update_node(t, ROOT_INDEX, node)

is_edge(t, parent, action) == t.edge_map[parent][action] # NULL_INDEX

\* add_child of the specification: a full arena leaves the tree as it is
add_node(t, parent, action, node) ==
    IF t.next_free >= max_nodes THEN t
    ELSE update_node([t EXCEPT !.edge_map[parent][action] = t.next_free,
                               !.parents[t.next_free] = parent,
                               !.next_free = t.next_free + 1],
                     t.next_free, node)

\* the data of the children of a slot, per action; 0 where there is no child
get_child_data(t, data, s) ==
    [a \in Actions |-> IF is_edge(t, s, a) THEN data[t.edge_map[s][a]] ELSE 0]

\* a key for the caller and the tree with its key advanced
get_rng(t) ==
    [rand_key |-> SplitDir(t.key), tree |-> [t EXCEPT !.key = SplitNew(t.key)]]

----------------------------------------------------------------------------
(* The engine of core/evaluators/mcts/mcts.py.  cfg holds the constructor's  *)
(* arguments: discount, temperature, and which step, evaluation and mask     *)
(* functions the engine was given.                                           *)

\* step_fn: the stepped embedding, the reward of the player now to move, terminated
step_fn(e, a) ==
    [embedding |-> EnvStep(e, a),
     reward |-> Reward(EnvStep(e, a), EnvStep(e, a).player),
     terminated |-> EnvStep(e, a).terminated]

\* eval_fn: exp(policy logits) and the value estimate
eval_fn(cfg, e) ==
    [weights |-> IF cfg.prior = "uniform" THEN [a \in Actions |-> WLow]
                 ELSE EvalWeights(e),
     value |-> IF cfg.value = "zero" THEN 0 ELSE EvalValue(e)]

\* action_mask_fn; the constructor's default is lambda _: jnp.array([True])
action_mask_fn(cfg, e) ==
    IF cfg.mask = "default" THEN AllLegal ELSE legal_action_mask(e)

\* action_selection_fn(tree, index, discount): PUCT as the specification gives it
action_selection_fn(cfg, t, s) ==
    choose_with_puct([idx_action_map |-> t.edge_map, n_vals |-> t.n, w_vals |-> t.w,
                      p_vals |-> t.p, cur_node |-> s],
                     action_mask_fn(cfg, t.embedding[s]))

\* update_root starting an unvisited root at w = 0 instead of the value estimate
update_root_without_value(cfg, t, root_embedding) ==
    LET root_policy == Softmax(eval_fn(cfg, root_embedding).weights, AllLegal)
        root_node == TreeAt(t, ROOT_INDEX)
        visited == root_node.n > 0
    IN  set_root(t, [root_node EXCEPT
                        !.p = root_policy,
                        !.w = IF visited THEN root_node.w ELSE 0,
                        !.n = IF visited THEN root_node.n ELSE 1,
                        !.embedding = root_embedding])

update_root(cfg, t, root_embedding) ==
    LET root_policy == Softmax(eval_fn(cfg, root_embedding).weights, AllLegal)
        root_value == eval_fn(cfg, root_embedding).value
        root_node == TreeAt(t, ROOT_INDEX)
        visited == root_node.n > 0
    IN  set_root(t, [root_node EXCEPT
                        !.p = root_policy,
                        !.w = IF visited THEN root_node.w ELSE root_value,
                        !.n = IF visited THEN root_node.n ELSE 1,
                        !.embedding = root_embedding])

RECURSIVE tree_traverse_loop(_, _, _, _, _)
\* the while_loop of traverse, from TraversalState(parent, action)
tree_traverse_loop(cfg, t, parent, action, fuel) ==
    IF fuel > 0 /\ is_edge(t, parent, action)
                /\ ~t.terminal[t.edge_map[parent][action]]
    THEN tree_traverse_loop(cfg, t, t.edge_map[parent][action],
                            action_selection_fn(cfg, t, t.edge_map[parent][action]),
                            fuel - 1)
    ELSE [parent |-> parent, action |-> action]

\* traverse that returns the root and its selected action without descending
tree_traverse_root_only(cfg, t) ==
    [parent |-> ROOT_INDEX, action |-> action_selection_fn(cfg, t, ROOT_INDEX)]

\* traverse(tree)
tree_traverse(cfg, t) ==
    tree_traverse_loop(cfg, t, ROOT_INDEX, action_selection_fn(cfg, t, ROOT_INDEX),
                       max_nodes)

RECURSIVE tree_backpropagate(_, _, _, _)
\* backpropagate(tree, parent, value)
tree_backpropagate(cfg, t, node_idx, value) ==
    IF node_idx = NULL_INDEX THEN t
    ELSE tree_backpropagate(cfg,
            [t EXCEPT !.n[node_idx] = @ + 1, !.w[node_idx] = @ + value * cfg.discount],
            t.parents[node_idx], value * cfg.discount)

\* iterate, once traverse has returned (parent, action)
tree_iterate_at(cfg, t, parent, action) ==
    LET st == step_fn(t.embedding[parent], action)
        policy == Softmax(eval_fn(cfg, st.embedding).weights,
                          action_mask_fn(cfg, st.embedding))
        value == IF st.terminated THEN st.reward ELSE eval_fn(cfg, st.embedding).value
        node_id == t.edge_map[parent][action]
        node == TreeAt(t, node_id)
        grown ==
            IF is_edge(t, parent, action)
            THEN update_node(t, node_id,
                     [n |-> node.n + 1, w |-> node.w + value, p |-> policy,
                      terminal |-> st.terminated, embedding |-> st.embedding])
            ELSE add_node(t, parent, action,
                     [n |-> 1, p |-> policy, w |-> value,
                      terminal |-> st.terminated, embedding |-> st.embedding])
    IN  tree_backpropagate(cfg, grown, parent, value)

\* iterate at a missing child: add_node with w = value, then backpropagate
tree_iterate_add(cfg, t, parent, action, value) ==
    tree_backpropagate(cfg,
        add_node(t, parent, action,
                 [n |-> 1, p |-> [a \in Actions |-> 0], w |-> value,
                  terminal |-> FALSE, embedding |-> EnvInit]),
        parent, value)

\* iterate(tree)
tree_iterate(cfg, t) ==
    tree_iterate_at(cfg, t, tree_traverse(cfg, t).parent, tree_traverse(cfg, t).action)

\* jnp.argmax of action_visits / action_visits.sum(): the first NaN when the sum is 0
WeightsArgMax(child_n) ==
    ArgMax([a \in Actions |-> SumTo(child_n, NumActions - 1) = 0],
           [a \in Actions |-> FALSE],
           [a \in Actions |-> [b \in Actions |-> child_n[a] > child_n[b]]])

\* jax.random.choice(rand_key, A, p): the action the key's quantile falls on;
\* with p all NaN the draw is unspecified
Categorical(rand_key, child_n) ==
    LET total == SumTo(child_n, NumActions - 1)
        r == (rand_key * total) \div KeySpace
    IN  IF total = 0 THEN Actions
        ELSE {CHOOSE a \in Actions :
                /\ SumTo(child_n, a) > r
                /\ \A b \in 0 .. (a - 1) : SumTo(child_n, b) <= r}

\* the sampler without its temperature test
sample_root_action_always_sampling(cfg, t) ==
    LET action_visits == get_child_data(t, t.n, ROOT_INDEX)
        rng == get_rng(t)
    IN  [tree |-> rng.tree,
         actions |-> Categorical(rng.rand_key, action_visits),
         action_weights |-> [num |-> action_visits,
                             den |-> SumTo(action_visits, NumActions - 1)]]

\* sample_root_action(tree): the tree with its key advanced, the set of actions
\* the call can return, and the weights as the visits over their sum.
\* Temperatures are 0 or 1, so weights ** (1 / temperature) is the weights.
sample_root_action(cfg, t) ==
    LET action_visits == get_child_data(t, t.n, ROOT_INDEX)
        rng == get_rng(t)
    IN  [tree |-> rng.tree,
         actions |-> IF cfg.temperature = 0 THEN {WeightsArgMax(action_visits)}
                     ELSE Categorical(rng.rand_key, action_visits),
         action_weights |-> [num |-> action_visits,
                             den |-> SumTo(action_visits, NumActions - 1)]]


----------------------------------------------------------------------------
(* Bookkeeping for the record `last` *)

Children(st, S) ==
    {st.idx_action_map[s][a] : s \in S, a \in Actions} \ {0}

RECURSIVE Closure(_, _)
Closure(st, S) ==
    LET T == S \cup Children(st, S)
    IN  IF T = S THEN S ELSE Closure(st, T)

\* the slots reachable from slot c along edges, c included; {} for c = 0
Subtree(st, c) == IF c = 0 THEN {} ELSE Closure(st, {c})

LegalSet(mask) == {a \in Actions : mask[a]}

NoOp == [op |-> "init", action |-> 0, kind |-> "", node |-> 0, retained |-> {},
         legal |-> {}, env_steps |-> 0, root_n |-> 0, root_w |-> 0, weights |-> <<>>]

----------------------------------------------------------------------------
(* The operations *)

Init ==
    /\ \E k \in 0 .. (KeySpace - 1) : StateIs(reset(k))
    /\ game = EnvInit
    /\ env_state = EnvInit
    /\ root_state = EnvInit
    /\ pc = "idle"
    /\ iter = 0
    /\ calls = 0
    /\ completed = -1
    /\ tree = TreeReset(0)
    /\ config = MCTSConfig
    /\ last = NoOp

\* reset(key)
Reset ==
    /\ pc = "idle"
    /\ calls < MaxCalls
    /\ \E k \in 0 .. (KeySpace - 1) : Install(reset(k))
    /\ calls' = calls + 1
    /\ completed' = -1
    /\ last' = [NoOp EXCEPT !.op = "reset"]
    /\ UNCHANGED <<env_state, root_state, game, pc, iter>>
    /\ UNCHANGED <<tree, config>>

\* evaluate(state, env_state, num_iters), up to the first scan step
Evaluate ==
    /\ pc = "idle"
    /\ calls < MaxCalls
    /\ Install(evaluate_root(State, game))
    /\ env_state' = game
    /\ root_state' = game
    /\ pc' = "scan"
    /\ iter' = 0
    /\ calls' = calls + 1
    /\ completed' = IF State = reset(key) THEN 0 ELSE completed
    /\ last' = [NoOp EXCEPT !.op = "evaluate", !.root_n = n_vals[1],
                            !.root_w = w_vals[1]]
    /\ UNCHANGED game
    /\ UNCHANGED <<tree, config>>

\* one step of jax.lax.scan(iterate_fn, ...)
Iterate ==
    /\ pc = "scan"
    /\ iter < MaxIters
    /\ LET r == iterate(State, env_state, root_state)
       IN  /\ Install(r.state)
           /\ env_state' = r.env_state
           /\ completed' = IF completed >= 0 /\ r.is_leaf THEN completed + 1
                           ELSE completed
           /\ last' = [NoOp EXCEPT
                         !.op = "iterate",
                         !.env_steps = 1,
                         !.action = r.action,
                         !.node = cur_node,
                         !.legal = LegalSet(legal_action_mask(env_state)),
                         !.kind = IF ~r.is_leaf THEN "descend"
                                  ELSE IF ~r.unvisited THEN "terminal"
                                  ELSE IF next_empty' = next_empty THEN "full"
                                  ELSE "expand"]
    /\ iter' = iter + 1
    /\ UNCHANGED <<root_state, game, pc, calls>>
    /\ UNCHANGED <<tree, config>>

\* the scan ends after num_iters = iter steps and evaluate returns
Return ==
    /\ pc = "scan"
    /\ \E num_iters \in 0 .. MaxIters : iter = num_iters
    /\ Install([State EXCEPT !.cur_node = 1])
    /\ pc' = "idle"
    /\ last' = [NoOp EXCEPT !.op = "return"]
    /\ UNCHANGED <<env_state, root_state, game, iter, calls, completed>>
    /\ UNCHANGED <<tree, config>>

\* the caller plays a legal move and calls step_evaluator(state, action, terminated)
StepEvaluator ==
    /\ pc = "idle"
    /\ calls < MaxCalls
    /\ \E a \in Actions, win \in Slots :
        /\ legal_action_mask(game)[a]
        /\ LET g == EnvStep(game, a)
           IN  /\ Install(step_evaluator(State, a, g.terminated, win))
               /\ game' = IF g.terminated THEN EnvInit ELSE g
               /\ last' = [NoOp EXCEPT
                             !.op = "step_evaluator",
                             !.action = a,
                             !.node = idx_action_map[1][a],
                             !.retained = Subtree(State, idx_action_map[1][a]),
                             !.kind = IF g.terminated THEN "terminated"
                                      ELSE IF idx_action_map[1][a] > 1 THEN "populated"
                                      ELSE "empty"]
    /\ calls' = calls + 1
    /\ completed' = -1
    /\ UNCHANGED <<env_state, root_state, pc, iter>>
    /\ UNCHANGED <<tree, config>>

Next == Reset \/ Evaluate \/ Iterate \/ Return \/ StepEvaluator

Spec == Init /\ [][Next]_vars

\* the engine on the strict variant of the game, which has a state without a
\* legal action that is not terminal
InitStuck ==
    /\ \E k \in 0 .. (KeySpace - 1) : StateIs(reset(k))
    /\ game = [EnvInit EXCEPT !.strict = TRUE]
    /\ env_state = game
    /\ root_state = game
    /\ pc = "idle"
    /\ iter = 0
    /\ calls = 0
    /\ completed = -1
    /\ tree = TreeReset(0)
    /\ config = MCTSConfig
    /\ last = NoOp

SpecStuck == InitStuck /\ [][Next]_vars

----------------------------------------------------------------------------
(* The two backpropagation schemes side by side: both engines hold the same  *)
(* path from the root to a parent at ply d - 1, of any shape that fits the   *)
(* arena, and each adds a new leaf at ply d and backpropagates the value v.  *)

\* the path as iterate of the flat arena sees it after traverse has allocated the
\* leaf: slot k + 1 at ply k, the leaf at slot d + 1
PathArena(acts, d) ==
    [reset(0) EXCEPT
        !.idx_action_map =
            [s \in Slots |-> [a \in Actions |->
                IF s \in 1 .. d /\ acts[s] = a THEN s + 1 ELSE 0]],
        !.parents = [s \in Slots |-> IF s \in 2 .. (d + 1) THEN s - 1 ELSE 0],
        !.n_vals = [s \in Slots |-> IF s \in 1 .. d THEN 1 ELSE 0],
        !.visits = [k \in Plies |-> IF k <= d THEN k + 1 ELSE 0],
        !.depth = d,
        !.cur_node = d + 1,
        !.next_empty = d + 2]

\* the same path in the tree, before the leaf is added
PathTree(acts, d) ==
    [TreeReset(0) EXCEPT
        !.edge_map =
            [s \in Slots |-> [a \in Actions |->
                IF s \in 1 .. (d - 1) /\ acts[s] = a THEN s + 1 ELSE 0]],
        !.parents = [s \in Slots |-> IF s \in 2 .. d THEN s - 1 ELSE 0],
        !.n = [s \in Slots |-> IF s \in 1 .. d THEN 1 ELSE 0],
        !.next_free = d + 1]

InitCredit ==
    /\ \E d \in 1 .. (max_nodes - 2) :
       \E acts \in [1 .. d -> Actions], v \in (-MaxN) .. MaxN :
            /\ StateIs(PathArena(acts, d))
            /\ tree = PathTree(acts, d)
            /\ last = [NoOp EXCEPT !.op = "path", !.node = d, !.action = acts[d],
                                   !.root_w = v]
    /\ game = EnvInit
    /\ env_state = EnvInit
    /\ root_state = EnvInit
    /\ pc = "path"
    /\ iter = 0
    /\ calls = 0
    /\ completed = -1
    /\ config = [prior |-> "uniform", value |-> "zero", mask |-> "default",
                 discount |-> -1, temperature |-> 0]

\* both engines backpropagate the value last.root_w from the new leaf
Credit ==
    /\ pc = "path"
    /\ Install(iterate_update(State, EnvInit, EnvInit, last.action, TRUE, TRUE,
                              leaf_inc_of(visits, TRUE), last.root_w).state)
    /\ tree' = tree_iterate_add(config, tree, last.node, last.action, last.root_w)
    /\ pc' = "credited"
    /\ last' = [last EXCEPT !.op = "credit"]
    /\ UNCHANGED <<env_state, root_state, game, iter, calls, completed, config>>

NextCredit == Credit

SpecCredit == InitCredit /\ [][NextCredit]_vars

----------------------------------------------------------------------------
(* Label propagation on its own: propagate_root_subtrees applied to an arena *)
(* holding any tree that fits in it.  Slots are allocated in increasing      *)
(* order, so a parent has a lower index than its child; a node has at most   *)
(* NumActions children; parents[0] holds whatever a miss on a full arena has *)
(* written there.                                                            *)

ParentMaps(k) ==
    {par \in [2 .. (k - 1) -> 1 .. (max_nodes - 2)] :
        /\ \A s \in 2 .. (k - 1) : par[s] < s
        /\ \A q \in 1 .. (k - 1) :
              Cardinality({s \in 2 .. (k - 1) : par[s] = q}) <= NumActions}

\* the arena holding the tree of a parent map: the children of a node take its
\* actions in the order of their slots
ShapeArena(k, par, par0) ==
    [reset(0) EXCEPT
        !.parents = [s \in Slots |-> IF s = 0 THEN par0
                                     ELSE IF s \in 2 .. (k - 1) THEN par[s] ELSE 0],
        !.idx_action_map =
            [q \in Slots |-> [a \in Actions |->
                LET later == {s \in 2 .. (k - 1) : par[s] = q}
                    pick == {s \in later :
                                Cardinality({r \in later : r < s}) = a}
                IN  IF pick = {} THEN 0 ELSE CHOOSE s \in pick : TRUE]],
        !.n_vals = [s \in Slots |-> IF s \in 1 .. (k - 1) THEN 1 ELSE 0],
        !.next_empty = k]

InitShapes ==
    /\ \E k \in 2 .. max_nodes : \E par \in ParentMaps(k), par0 \in 0 .. (k - 1) :
            StateIs(ShapeArena(k, par, par0))
    /\ game = EnvInit
    /\ env_state = EnvInit
    /\ root_state = EnvInit
    /\ pc = "shape"
    /\ iter = 0
    /\ calls = 0
    /\ completed = -1
    /\ tree = TreeReset(0)
    /\ config = MCTSConfig
    /\ last = NoOp

\* state = self.propagate_root_subtrees(state)
Propagate ==
    /\ pc = "shape"
    /\ Install(propagate_root_subtrees(State))
    /\ pc' = "labelled"
    /\ last' = [NoOp EXCEPT !.op = "propagate_root_subtrees"]
    /\ UNCHANGED <<env_state, root_state, game, iter, calls, completed, tree, config>>

NextShapes == Propagate

SpecShapes == InitShapes /\ [][NextShapes]_vars

----------------------------------------------------------------------------
(* Construction of the flat-arena engine, for configurations and action      *)
(* counts inside and outside the ranges the engine is meant for.             *)

ConfigSpace ==
    [max_nodes : 0 .. 3, puct_coeff : (-1) .. 1, dirichlet_alpha : (-1) .. 1,
     dirichlet_epsilon : (-1) .. (EpsDen + 1)]

InitConstruct ==
    /\ StateIs(reset(0))
    /\ game = EnvInit
    /\ env_state = EnvInit
    /\ root_state = EnvInit
    /\ pc = "unbuilt"
    /\ iter = 0
    /\ calls = 0
    /\ completed = -1
    /\ tree = TreeReset(0)
    /\ config \in ConfigSpace
    /\ last = NoOp

\* MCTS(env, config)
Construct ==
    /\ pc = "unbuilt"
    /\ \E num_actions \in 0 .. NumActions :
        last' = [NoOp EXCEPT !.op = "init_engine", !.action = num_actions,
                            !.node = MCTS_init(num_actions, config).valid_slots]
    /\ pc' = "built"
    /\ UNCHANGED <<key, idx_action_map, p_vals, n_vals, w_vals, visits, depth, max_depth,
                   cur_node, next_empty, subtrees, parents, env_state, root_state, game,
                   iter, calls, completed, tree, config>>

NextConstruct == Construct

SpecConstruct == InitConstruct /\ [][NextConstruct]_vars

----------------------------------------------------------------------------
(* The selector on its own: choose_with_puct and traverse applied once, at   *)
(* the root of an arena whose children carry any visit counts up to MaxN,    *)
(* any cumulative values and any priors, under any mask with a legal action. *)

PriorValues == {NaN} \cup (0 .. PDen)

\* an arena holding the root, with prior row p, and a child with n[a] visits and
\* value w[a] for every action a in `present`
SelectState(present, n, w, p) ==
    LET slot(a) == 1 + Cardinality({b \in present : b <= a})
        of(s) == CHOOSE a \in present : slot(a) = s
        used == {slot(a) : a \in present}
        fresh == reset(0)
    IN  [fresh EXCEPT
            !.idx_action_map[1] = [a \in Actions |-> IF a \in present THEN slot(a) ELSE 0],
            !.p_vals[1] = p,
            !.n_vals = [s \in Slots |->
                           IF s = 1 THEN 1 + SumTo([a \in Actions |->
                                                      IF a \in present THEN n[a] ELSE 0],
                                                   NumActions - 1)
                           ELSE IF s \in used THEN n[of(s)] ELSE 0],
            !.w_vals = [s \in Slots |-> IF s \in used THEN w[of(s)] ELSE 0],
            !.parents = [s \in Slots |-> IF s \in used THEN 1 ELSE 0],
            !.next_empty = 2 + Cardinality(present)]

InitSelect ==
    /\ \E present \in SUBSET Actions, p \in [Actions -> PriorValues] :
       \E n \in [present -> 1 .. MaxN], w \in [present -> (-MaxN) .. MaxN] :
            StateIs(SelectState(present, n, w, p))
    /\ game = EnvInit
    /\ env_state = EnvInit
    /\ root_state = EnvInit
    /\ pc = "select"
    /\ iter = 0
    /\ calls = 0
    /\ completed = -1
    /\ tree = TreeReset(0)
    /\ config = MCTSConfig
    /\ last = NoOp

\* action = choose_with_puct(state, legal_actions); traverse(state, action)
Select ==
    /\ pc = "select"
    /\ \E L \in Masks :
        /\ \E a \in Actions : L[a]
        /\ \E action \in {choose_with_puct(State, L)} :
            /\ Install(traverse(State, action).state)
            /\ last' = [NoOp EXCEPT !.op = "select", !.action = action,
                                    !.node = cur_node, !.legal = LegalSet(L)]
    /\ pc' = "selected"
    /\ UNCHANGED <<env_state, root_state, game, iter, calls, completed>>
    /\ UNCHANGED <<tree, config>>

NextSelect == Select

SpecSelect == InitSelect /\ [][NextSelect]_vars

----------------------------------------------------------------------------
(* The engine of core/evaluators/mcts/mcts.py on its own tree: searches of   *)
(* any number of iterations up to MaxIters, one after the other on the same  *)
(* tree, for every way the engine can be constructed and every root state.   *)

MaxSearches == 2

TreeConfigs ==
    [prior : {"uniform", "parity"}, value : {"zero", "parity"},
     mask : {"default", "env"}, discount : {-1}, temperature : {0, 1}]

RootEmbeddings ==
    [pos : 0 .. (Goal - 1), player : 0 .. (num_players - 1), terminated : {FALSE},
     strict : BOOLEAN]

InitTree ==
    /\ StateIs(reset(0))
    /\ game = EnvInit
    /\ env_state = EnvInit
    /\ root_state \in RootEmbeddings
    /\ pc = "tree_idle"
    /\ iter = 0
    /\ calls = 0
    /\ completed = -1
    /\ \E k \in 0 .. (KeySpace - 1) : tree = TreeReset(k)
    /\ config \in TreeConfigs
    /\ last = NoOp

\* search: tree = self.update_root(tree, root_embedding)
UpdateRoot ==
    /\ pc = "tree_idle"
    /\ calls < MaxSearches
    /\ tree' = update_root(config, tree, root_state)
    /\ pc' = "tree_scan"
    /\ iter' = 0
    /\ calls' = calls + 1
    /\ last' = [NoOp EXCEPT !.op = "update_root", !.root_n = tree.n[ROOT_INDEX],
                            !.root_w = tree.w[ROOT_INDEX]]
    /\ UNCHANGED <<key, idx_action_map, p_vals, n_vals, w_vals, visits, depth, max_depth,
                   cur_node, next_empty, subtrees, parents, env_state, root_state, game,
                   completed, config>>

\* search: one trip of the fori_loop, tree = self.iterate(tree)
TreeIterate ==
    /\ pc = "tree_scan"
    /\ iter < MaxIters
    /\ tree' = tree_iterate(config, tree)
    /\ iter' = iter + 1
    /\ last' = [NoOp EXCEPT
                  !.op = "iterate",
                  !.node = tree_traverse(config, tree).parent,
                  !.action = tree_traverse(config, tree).action,
                  !.kind = IF is_edge(tree, tree_traverse(config, tree).parent,
                                      tree_traverse(config, tree).action)
                           THEN "update"
                           ELSE IF tree.next_free < max_nodes THEN "add" ELSE "full"]
    /\ UNCHANGED <<key, idx_action_map, p_vals, n_vals, w_vals, visits, depth, max_depth,
                   cur_node, next_empty, subtrees, parents, env_state, root_state, game,
                   pc, calls, completed, config>>

\* search: tree, action, action_weights = self.sample_root_action(tree), and the return
SampleRootAction ==
    /\ pc = "tree_scan"
    /\ \E a \in sample_root_action(config, tree).actions :
        last' = [NoOp EXCEPT
                   !.op = "sample_root_action",
                   !.action = a,
                   !.weights = sample_root_action(config, tree).action_weights,
                   !.root_n = tree.n[ROOT_INDEX],
                   !.root_w = tree.w[ROOT_INDEX]]
    /\ tree' = sample_root_action(config, tree).tree
    /\ pc' = "tree_idle"
    /\ UNCHANGED <<key, idx_action_map, p_vals, n_vals, w_vals, visits, depth, max_depth,
                   cur_node, next_empty, subtrees, parents, env_state, root_state, game,
                   iter, calls, completed, config>>

NextTree == UpdateRoot \/ TreeIterate \/ SampleRootAction

SpecTree == InitTree /\ [][NextTree]_vars


----------------------------------------------------------------------------
(* Vocabulary of the properties, read off the arena itself *)

\* the edge-map entries (p, a) that hold slot s
EdgesTo(s) == {e \in Slots \X Actions : idx_action_map[e[1]][e[2]] = s}

Allocated == 1 .. (next_empty - 1)

RECURSIVE PathTo(_, _)
\* the slots from s up to the root along parent back-pointers (fuel bounds the walk)
PathTo(s, fuel) ==
    IF s = 0 \/ fuel = 0 THEN {}
    ELSE IF s = 1 THEN {1}
    ELSE {s} \cup PathTo(parents[s], fuel - 1)

\* the ply of slot s: 0 for the root
PlyOf(s) == Cardinality(PathTo(s, max_nodes)) - 1

\* the value an iteration backpropagates after stepping env with action a
LeafValue(env, a, root) ==
    LET e == EnvStep(env, a)
    IN  IF e.terminated THEN Reward(e, root.player) ELSE EvalValue(e)

----------------------------------------------------------------------------
(* C1: arena consistency.  In every reachable state every allocated non-root *)
(* slot s (2 <= s < next_empty) is held by exactly one edge-map entry (p, a), *)
(* that p is parents[s], and no slot is held by two entries.                 *)
C1_ArenaConsistency ==
    /\ \A s \in 2 .. (next_empty - 1) :
          /\ Cardinality(EdgesTo(s)) = 1
          /\ \A e \in EdgesTo(s) : e[1] = parents[s]
    /\ \A s \in Slots \ {0} : Cardinality(EdgesTo(s)) <= 1

\* a search is growing a tree whose root came out of a promotion (its n exceeds
\* the steps of this search) with nodes two plies below the root
C1_Witness ==
    /\ pc = "scan"
    /\ last.op = "iterate"
    /\ last.kind = "expand"
    /\ n_vals[1] > iter
    /\ next_empty >= 4
    /\ \E s \in 2 .. (next_empty - 1) : parents[s] > 1

(* C2: in every reachable state 1 <= next_empty <= max_nodes.               *)
C2_NextEmptyInRange == 1 <= next_empty /\ next_empty <= max_nodes

\* an expansion was attempted with the arena full
C2_Witness ==
    /\ last.op = "iterate"
    /\ last.kind = "full"
    /\ next_empty = max_nodes

(* C3: a scan step taken with next_empty = max_nodes whose selected action   *)
(* has no child allocates nothing (next_empty and the edge map keep their    *)
(* values) and backpropagates the value: n grows by 1 on exactly the slots   *)
(* of the path from the root to the current node, whose w takes the value    *)
(* with the sign of its ply, and no other slot's n or w changes.             *)
C3_FullArenaStep ==
    [][ ( /\ pc = "scan"
          /\ last'.op = "iterate"
          /\ next_empty = max_nodes
          /\ idx_action_map[cur_node][last'.action] = 0 )
        => LET path == PathTo(cur_node, max_nodes)
               v == LeafValue(env_state, last'.action, root_state)
           IN  /\ next_empty' = next_empty
               /\ idx_action_map' = idx_action_map
               /\ \A s \in Slots :
                     /\ n_vals'[s] = n_vals[s] + (IF s \in path THEN 1 ELSE 0)
                     /\ w_vals'[s] = w_vals[s]
                          + (IF s \notin path THEN 0
                             ELSE IF PlyOf(s) % 2 = 0 THEN v ELSE -v) ]_vars

\* the arena-full miss happened below the root with a non-zero value
C3_Witness ==
    /\ last.op = "iterate"
    /\ last.kind = "full"
    /\ last.node # 1
    /\ next_empty = max_nodes


----------------------------------------------------------------------------
(* Subtree promotion, stated on load_subtree applied where the caller can    *)
(* apply it: to every state between two searches, for every action and for   *)
(* every order in which the backend may resolve colliding writes.            *)

RECURSIVE SameSubtree(_, _, _, _, _)
\* slot j of arena `new` carries the same n, w and p as slot i of arena `old`, and
\* so does, action by action, everything below them
SameSubtree(old, i, new, j, fuel) ==
    /\ fuel > 0
    /\ new.n_vals[j] = old.n_vals[i]
    /\ new.w_vals[j] = old.w_vals[i]
    /\ new.p_vals[j] = old.p_vals[i]
    /\ \A a \in Actions :
          LET x == old.idx_action_map[i][a]
              y == new.idx_action_map[j][a]
          IN  /\ (x = 0) <=> (y = 0)
              /\ x # 0 => SameSubtree(old, x, new, y, fuel - 1)

\* slot s of arena st holds nothing
EmptySlot(st, s) ==
    /\ st.n_vals[s] = 0
    /\ st.w_vals[s] = 0
    /\ \A a \in Actions : st.p_vals[s][a] = 0 /\ st.idx_action_map[s][a] = 0
    /\ st.parents[s] = 0

(* C4: if edge[1, a] is a populated child c, then after load_subtree(a) slot *)
(* 1 holds exactly the n, w and p slot c held before, and its parent is the  *)
(* null slot 0.                                                              *)
C4_PromotedRootKeepsStats ==
    pc = "idle" =>
        \A a \in Actions, win \in Slots :
            \A new \in {load_subtree(State, a, win)} :
                LET c == idx_action_map[1][a]
                IN  c > 1 =>
                    /\ new.n_vals[1] = n_vals[c]
                    /\ new.w_vals[1] = w_vals[c]
                    /\ new.p_vals[1] = p_vals[c]
                    /\ new.parents[1] = 0

\* a promotion has just made a visited child, whose statistics differ from the old
\* root's, the root
C4_Witness ==
    /\ last.op = "step_evaluator"
    /\ last.kind = "populated"
    /\ last.node > 2
    /\ n_vals[1] >= 2
    /\ w_vals[1] # 0

(* C5: load_subtree(a) is an isomorphism on the subtree of c = edge[1, a]:   *)
(* every node below c is reached from the new root by the action sequence    *)
(* that led to it from c, with the same n, w and p, and nothing else is left *)
(* in the arena: the allocated slots are exactly the nodes below the new     *)
(* root, as many as there were below c, and every other slot is empty.       *)
C5_PromotionIsomorphism ==
    pc = "idle" =>
        \A a \in Actions, win \in Slots :
            \A new \in {load_subtree(State, a, win)} :
                LET c == idx_action_map[1][a]
                IN  c > 1 =>
                    /\ SameSubtree(State, c, new, 1, max_nodes)
                    /\ Subtree(new, 1) = 1 .. (new.next_empty - 1)
                    /\ Cardinality(Subtree(new, 1)) = Cardinality(Subtree(State, c))
                    /\ \A s \in Slots \ Subtree(new, 1) : EmptySlot(new, s)

\* a promotion has just kept a subtree of three or more nodes while a sibling
\* subtree was dropped
C5_Witness ==
    /\ last.op = "step_evaluator"
    /\ last.kind = "populated"
    /\ Cardinality(last.retained) >= 3
    /\ next_empty = Cardinality(last.retained) + 1
    /\ \E s \in Slots : s > 1 /\ s \notin last.retained /\ s < last.node

(* C6: after load_subtree(a) the k retained nodes (the nodes below           *)
(* c = edge[1, a], none when the edge is empty) occupy the slots 1..k in     *)
(* increasing order of their old slot index, c at slot 1, and                *)
(* next_empty = max(2, k + 1).                                               *)
C6_CompactRenumbering ==
    pc = "idle" =>
        \A a \in Actions, win \in Slots :
            \A new \in {load_subtree(State, a, win)},
               kept \in {Subtree(State, idx_action_map[1][a])} :
            LET c == idx_action_map[1][a]
                k == Cardinality(kept)
                rank(r) == Cardinality({x \in kept : x <= r})
            IN  /\ new.next_empty = Max(2, k + 1)
                /\ c > 1 => rank(c) = 1
                /\ \A r \in kept :
                      /\ new.n_vals[rank(r)] = n_vals[r]
                      /\ new.w_vals[rank(r)] = w_vals[r]
                      /\ new.parents[rank(r)] = IF r = c THEN 0 ELSE rank(parents[r])
                      /\ \A b \in Actions :
                            new.idx_action_map[rank(r)][b] =
                                IF idx_action_map[r][b] = 0 THEN 0
                                ELSE rank(idx_action_map[r][b])

\* a promotion has just kept nodes whose old slots were not contiguous
C6_Witness ==
    /\ last.op = "step_evaluator"
    /\ last.kind = "populated"
    /\ next_empty = Cardinality(last.retained) + 1
    /\ \E s \in Slots, x, y \in last.retained : s \notin last.retained /\ x < s /\ s < y

(* C7: after load_subtree(a) every slot s >= next_empty has w = 0, n = 0, an *)
(* all-zero prior, no outgoing edge and parent 0.                            *)
C7_ErasedAboveNextEmpty ==
    pc = "idle" =>
        \A a \in Actions, win \in Slots :
            \A new \in {load_subtree(State, a, win)} :
                \A s \in Slots : s >= new.next_empty => EmptySlot(new, s)

\* a promotion has just dropped nodes: the arena shrank below the slots of the
\* subtree it kept
C7_Witness ==
    /\ last.op = "step_evaluator"
    /\ last.kind = "populated"
    /\ \E r \in last.retained : r >= next_empty
    /\ \A s \in Slots : s >= next_empty => EmptySlot(State, s)

----------------------------------------------------------------------------
(* The selector, stated on choose_with_puct applied at every allocated slot  *)
(* of the arena, for every legal-action mask.                                *)

\* the state with the traversal standing at slot s
At(s) == [State EXCEPT !.cur_node = s]

\* N_a and W_a of the claim: the child's n and w, 0 where there is no child
ChildN(s, a) == IF idx_action_map[s][a] = 0 THEN 0 ELSE n_vals[idx_action_map[s][a]]
ChildW(s, a) == IF idx_action_map[s][a] = 0 THEN 0 ELSE w_vals[idx_action_map[s][a]]
SumChildN(s) == SumTo([a \in Actions |-> ChildN(s, a)], NumActions - 1)

\* Q_a + U_a > Q_b + U_b at slot s, with Q = W / max(N, 1) and
\* U = c * p[s, a] * sqrt(1 + sum_b N_b) / (1 + N_a); both sides are multiplied by
\* the positive max(N_a, 1) * max(N_b, 1) * PDen * (1 + N_a) * (1 + N_b)
ScoreGreater(s, a, b) ==
    LET ma == Max(ChildN(s, a), 1)
        mb == Max(ChildN(s, b), 1)
        qdiff == (ChildW(s, a) * mb - ChildW(s, b) * ma)
                    * PDen * (1 + ChildN(s, a)) * (1 + ChildN(s, b))
        udiff == puct_coeff * ma * mb
                    * (p_vals[s][b] * (1 + ChildN(s, a)) - p_vals[s][a] * (1 + ChildN(s, b)))
    IN  GtSqrt(qdiff, udiff, 1 + SumChildN(s))

(* C9: whatever the priors, visit counts and values, for a mask with at      *)
(* least one legal action the selector returns a legal action.               *)
C9_SelectorLegal ==
    \A s \in Allocated, L \in Masks :
        (\E a \in Actions : L[a]) => L[choose_with_puct(At(s), L)]

\* the selector has just returned a legal action at a root where an illegal action
\* has the best score: only the mask kept it off
C9_Witness ==
    /\ last.op = "select"
    /\ last.action \in last.legal
    /\ choose_with_puct(At(1), AllLegal) \notin last.legal
    /\ \E b \in Actions : ChildN(1, b) > 0

(* C10: the selector returns the lowest-index action that maximizes          *)
(* Q_a + c * p[s,a] * sqrt(1 + sum_b N_b) / (1 + N_a) over the legal         *)
(* actions; when no child of s has been visited, that is the lowest-index    *)
(* legal action with the largest prior.                                      *)
C10_SelectorArgmax ==
    \A s \in Allocated, L \in Masks :
        ((\E a \in Actions : L[a]) /\ (\A a \in Actions : p_vals[s][a] # NaN)) =>
            \A chosen \in {choose_with_puct(At(s), L)} :
                /\ L[chosen]
                /\ \A b \in Actions :
                      L[b] => /\ ~ScoreGreater(s, b, chosen)
                              /\ b < chosen => ScoreGreater(s, chosen, b)
                /\ SumChildN(s) = 0 =>
                      \A b \in Actions :
                          L[b] => /\ p_vals[s][b] <= p_vals[s][chosen]
                                  /\ b < chosen => p_vals[s][b] < p_vals[s][chosen]

\* the selector has just returned, among two legal actions whose children differ
\* in visits and value, the higher-index one, which has the smaller prior
C10_Witness ==
    /\ last.op = "select"
    /\ last.action > 0
    /\ \E b \in last.legal :
          /\ b < last.action
          /\ p_vals[1][last.action] < p_vals[1][b]
          /\ ChildN(1, b) > ChildN(1, last.action)
          /\ ChildN(1, last.action) > 0
          /\ ChildW(1, last.action) # ChildW(1, b)

----------------------------------------------------------------------------
(* Statistics kept by the iterations *)

\* the scan step just taken ended an iteration: at a new leaf ("expand"), at a
\* terminal child that existed ("terminal") or at an arena-full miss ("full")
Completes(l) == l.op = "iterate" /\ l.kind \in {"expand", "terminal", "full"}

\* the path the iteration ending with this step traversed: from the root to the
\* node the step started at, and the child the step reached, if there is one
TraversedPath ==
    PathTo(cur_node, max_nodes) \cup ({idx_action_map'[cur_node][last'.action]} \ {0})

(* C11: a scan step that ends an iteration adds exactly 1 to n on every slot *)
(* of the path traversed from the root to the leaf and changes n and w on no *)
(* slot outside that path; the steps that only descend change no n or w.     *)
C11_BackpropFrame ==
    [][ (pc = "scan" /\ last'.op = "iterate")
        => IF Completes(last')
           THEN \A s \in Slots :
                   IF s \in TraversedPath
                   THEN n_vals'[s] = n_vals[s] + 1
                   ELSE n_vals'[s] = n_vals[s] /\ w_vals'[s] = w_vals[s]
           ELSE n_vals' = n_vals /\ w_vals' = w_vals ]_vars

\* an iteration has just ended two plies or more below the root at a terminal
\* child that an earlier iteration had created
C11_Witness ==
    /\ last.op = "iterate"
    /\ last.kind = "terminal"
    /\ last.node > 1
    /\ n_vals[idx_action_map[last.node][last.action]] >= 2

(* C12: from a freshly reset tree, once the root is initialised and k        *)
(* iterations have completed, n[root] = 1 + k.                               *)
C12_RootCount == completed >= 0 => n_vals[1] = 1 + completed

(* C13: in every reachable state, after a promotion and with a full arena    *)
(* too, the visit counts of the root's children sum to at most n[root].      *)
C13_ChildrenWithinRoot == SumChildN(1) <= n_vals[1]

\* a search on a promoted tree has filled the arena, and the root's children
\* hold visits, fewer than the root
C13_Witness ==
    /\ pc = "scan"
    /\ completed = -1
    /\ last.op = "iterate"
    /\ next_empty = max_nodes
    /\ SumChildN(1) >= 2
    /\ SumChildN(1) < n_vals[1]

ValueBound ==
    CHOOSE R \in 0 .. 1 :
        /\ \A pos \in 0 .. Goal, pl \in 0 .. (num_players - 1), t \in BOOLEAN :
              \A e \in {[pos |-> pos, player |-> pl, terminated |-> t]} :
                  /\ Abs(EvalValue(e)) <= R
                  /\ \A q \in 0 .. (num_players - 1) : Abs(Reward(e, q)) <= R
        /\ R > 0

(* C15: with every evaluator value and every reward of absolute value at     *)
(* most R, |w[s]| <= R * n[s] for every allocated slot s in every reachable  *)
(* state.                                                                    *)
C15_MeanBounded ==
    \A s \in Allocated : Abs(w_vals[s]) <= ValueBound * n_vals[s]

\* one allocated node sits on the bound with several visits, all of one sign,
\* and another one strictly inside it
C15_Witness ==
    /\ \E s \in Allocated : n_vals[s] >= 2 /\ Abs(w_vals[s]) = ValueBound * n_vals[s]
    /\ \E s \in Allocated : n_vals[s] >= 2 /\ Abs(w_vals[s]) < ValueBound * n_vals[s]

----------------------------------------------------------------------------
(* Nodes and the environment states they stand for *)

\* the action whose edge leads from the parent of slot s to s
ActionTo(s) == CHOOSE a \in Actions : idx_action_map[parents[s]][a] = s

RECURSIVE NodeState(_, _)
\* the environment state of slot s: the root's state stepped along the path to s
NodeState(s, fuel) ==
    IF s <= 1 \/ fuel = 0 THEN game
    ELSE EnvStep(NodeState(parents[s], fuel - 1), ActionTo(s))

TerminalNode(s) == NodeState(s, max_nodes).terminated

(* C16: in every reachable state a node reached by a terminating environment *)
(* step has no outgoing edge, and between two steps of a search the          *)
(* traversal never stands on such a node.                                    *)
C16_TerminalNotExpanded ==
    /\ \A s \in 2 .. (next_empty - 1) :
          TerminalNode(s) => \A a \in Actions : idx_action_map[s][a] = 0
    /\ pc = "scan" => /\ ~env_state.terminated
                      /\ ~TerminalNode(cur_node)

\* a terminal node has been reached by two iterations and the search goes on
C16_Witness ==
    /\ pc = "scan"
    /\ \E s \in 2 .. (next_empty - 1) : TerminalNode(s) /\ n_vals[s] >= 2

\* the scan step about to be taken selects, at cur_node, an action whose child
\* exists and is terminal
AtTerminalChild ==
    /\ pc = "scan"
    /\ last'.op = "iterate"
    /\ idx_action_map[cur_node][last'.action] # 0
    /\ TerminalNode(idx_action_map[cur_node][last'.action])

(* C17 as claimed: when the traversal reaches an already existing terminal   *)
(* child, the iteration backpropagates the node's stored value and performs  *)
(* no environment step for it.                                               *)
C17_NoStepAtTerminal ==
    [][ AtTerminalChild => last'.env_steps = 0 ]_vars

(* C17 as amended: when the traversal reaches an already existing terminal   *)
(* child, the iteration ends there without creating a node; the environment  *)
(* is stepped once more along the chosen action and the reward that step     *)
(* reports for the root's player is backpropagated, which leaves the child's *)
(* mean value w / n as it was stored.                                        *)
C17_StepAtTerminal ==
    [][ AtTerminalChild =>
          LET c == idx_action_map[cur_node][last'.action]
              v == Reward(EnvStep(env_state, last'.action), root_state.player)
          IN  /\ last'.env_steps = 1
              /\ n_vals'[c] = n_vals[c] + 1
              /\ w_vals'[c] = w_vals[c] + (IF PlyOf(c) % 2 = 0 THEN v ELSE -v)
              /\ w_vals'[c] * n_vals[c] = w_vals[c] * n_vals'[c]
              /\ next_empty' = next_empty
              /\ idx_action_map' = idx_action_map
              /\ cur_node' = 1
              /\ env_state' = root_state ]_vars

\* an iteration has just ended at a terminal child that existed, adding a second
\* visit of non-zero value to it
C17_Witness ==
    /\ last.op = "iterate"
    /\ last.kind = "terminal"
    /\ last.env_steps = 1
    /\ w_vals[idx_action_map[last.node][last.action]] # 0
    /\ cur_node = 1

(* C18: root initialisation leaves the statistics of a root that already has *)
(* n > 0 untouched, rewriting its prior only; on a root with n = 0 it sets   *)
(* n = 1 and w to the evaluator's value of the root.                         *)
\* last.root_n and last.root_w are the root's n and w before evaluate
C18_RootInit ==
    last.op = "evaluate" =>
        IF last.root_n > 0
        THEN n_vals[1] = last.root_n /\ w_vals[1] = last.root_w
        ELSE n_vals[1] = 1 /\ w_vals[1] = EvalValue(root_state)

(* C19: slot 0 stays the null sentinel in every reachable state, with the    *)
(* arena full too: its n, w, priors, outgoing edges and parent entry hold no *)
(* non-zero data and the current node is never 0 between steps.              *)
C19_SlotZeroNull ==
    /\ n_vals[0] = 0
    /\ w_vals[0] = 0
    /\ \A a \in Actions : p_vals[0][a] = 0 /\ idx_action_map[0][a] = 0
    /\ parents[0] = 0
    /\ cur_node # 0

----------------------------------------------------------------------------
(* Priors of illegal actions *)

HasChild(s) == \E a \in Actions : idx_action_map[s][a] # 0

IllegalAt(s) == {a \in Actions : ~legal_action_mask(NodeState(s, max_nodes))[a]}

(* C20 as claimed: for every node with at least one child edge, the root     *)
(* after the Dirichlet noise included, the stored prior of every illegal     *)
(* action is 0.                                                              *)
C20_IllegalPriorZero ==
    \A s \in Allocated :
        HasChild(s) => \A a \in IllegalAt(s) : p_vals[s][a] = 0

(* C20 as amended: for every node other than the root with at least one      *)
(* child edge the stored prior of every illegal action is 0; the root of a   *)
(* search holds (1 - eps) * policy + eps * noise, which leaves the share     *)
(* eps * noise > 0 on its illegal actions.                                   *)
C20_IllegalPriorZeroBelowRoot ==
    /\ \A s \in 2 .. (next_empty - 1) :
          HasChild(s) => \A a \in IllegalAt(s) : p_vals[s][a] = 0
    /\ pc = "scan" =>
          \A a \in IllegalAt(1) :
              /\ p_vals[1][a] > 0
              /\ p_vals[1][a] * EpsDen <= EpsNum * PDen

\* a search has expanded, below the root, a node that has an illegal action, and
\* has given it a child
C20_Witness ==
    /\ pc = "scan"
    /\ \E s \in 2 .. (next_empty - 1) :
          /\ HasChild(s)
          /\ IllegalAt(s) # {}
          /\ \E a \in Actions : p_vals[s][a] > 0

----------------------------------------------------------------------------
(* The policy read off the root *)

\* entry a of an array value; a scalar reads the same at every index
Entry(r, a) == IF r.shape = <<>> THEN r.num ELSE r.num[a]

(* C21: get_policy returns the vector of length A whose entry a is           *)
(* n[edge[root, a]] / sum_b n[edge[root, b]], 0 for an action without a      *)
(* child, whenever a child of the root has been visited.                     *)
C21_VisitDistribution ==
    (pc = "idle" /\ SumChildN(1) > 0) =>
        \A r \in {get_policy(State)} :
            /\ r.shape = <<NumActions>>
            /\ r.den # 0
            /\ \A a \in Actions : Entry(r, a) * SumChildN(1) = ChildN(1, a) * r.den

----------------------------------------------------------------------------
(* Vocabulary of the properties of the engine on its own tree *)

\* the visit count of the child of the root under action a, 0 without a child
RootChildVisits(t, a) ==
    IF t.edge_map[ROOT_INDEX][a] = NULL_INDEX THEN 0 ELSE t.n[t.edge_map[ROOT_INDEX][a]]

Sampled == pc = "tree_scan" /\ pc' = "tree_idle"

(* C22: with temperature 0 the action a search returns is the lowest-indexed *)
(* action among those whose child of the root has the most visits, and it is *)
(* the same action whatever the random key of the tree is.                   *)
C22_GreedyAtZero ==
    [][(Sampled /\ config.temperature = 0) =>
        /\ \A b \in Actions :
                RootChildVisits(tree, b) <= RootChildVisits(tree, last'.action)
        /\ \A b \in 0 .. (last'.action - 1) :
                RootChildVisits(tree, b) < RootChildVisits(tree, last'.action)
        /\ \A k \in 0 .. (KeySpace - 1) :
                sample_root_action(config, [tree EXCEPT !.key = k]).actions
                    = {last'.action}]_vars

\* a greedy choice between two visited children of which the second has more visits
C22_Witness ==
    /\ last.op = "sample_root_action"
    /\ config.temperature = 0
    /\ RootChildVisits(tree, 0) > 0
    /\ RootChildVisits(tree, 1) > RootChildVisits(tree, 0)
    /\ last.action = 1

----------------------------------------------------------------------------
\* a state in which no action is legal
NoLegalAction(e) == \A a \in Actions : ~legal_action_mask(e)[a]

(* C23: a scan step that reaches a state with no legal action ends the       *)
(* iteration there, as at a terminal state, and the value it adds to the     *)
(* node reached is the reward the environment reports for that state, up to  *)
(* the sign of the ply, not the value estimate of the evaluator.             *)
C23_DeadEndIsTerminal ==
    [][(pc = "scan" /\ last'.op = "iterate"
            /\ NoLegalAction(EnvStep(env_state, last'.action)))
        => /\ Completes(last')
           /\ \A s \in {idx_action_map'[cur_node][last'.action]} \ {0} :
                Abs(w_vals'[s] - w_vals[s])
                    = Abs(Reward(EnvStep(env_state, last'.action), root_state.player))
       ]_vars

----------------------------------------------------------------------------
(* C24: an engine is built only from a configuration with max_nodes >= 2,    *)
(* dirichlet_epsilon in [0, 1], dirichlet_alpha > 0 and puct_coeff >= 0, for *)
(* an environment with at least one action.                                  *)
C24_InvalidConfigRejected ==
    pc = "built" =>
        /\ config.max_nodes >= 2
        /\ last.action >= 1
        /\ config.dirichlet_epsilon >= 0 /\ config.dirichlet_epsilon <= EpsDen
        /\ config.dirichlet_alpha > 0
        /\ config.puct_coeff >= 0

----------------------------------------------------------------------------
\* the slots below the root that hold a node with at least one visit
VisitedBelowRoot == {s \in Subtree(State, 1) \ {1} : n_vals[s] >= 1}

\* a search on a tree that started from reset, without a promotion since
FreshSearch == completed >= 0

(* C25 as claimed, for an arena of max_nodes slots: a search from a freshly  *)
(* reset tree that exhausts the arena leaves next_empty = max_nodes and      *)
(* max_nodes - 1 allocated children with visits (3 for max_nodes = 4).       *)
C25_ArenaExhaustion ==
    (FreshSearch /\ next_empty >= max_nodes) =>
        /\ next_empty = max_nodes
        /\ Cardinality(VisitedBelowRoot) = max_nodes - 1

(* C25 amended: in a search from a freshly reset tree next_empty never       *)
(* exceeds max_nodes; once the arena is exhausted the visited nodes below    *)
(* the root are exactly the slots 2 .. max_nodes - 1, that is max_nodes - 2  *)
(* of them; and the children of the root hold together at most as many       *)
(* visits as iterations have completed.                                      *)
C25_ArenaExhaustionBelowRoot ==
    FreshSearch =>
        /\ next_empty <= max_nodes
        /\ next_empty = max_nodes => VisitedBelowRoot = 2 .. (max_nodes - 1)
        /\ SumChildN(1) <= completed

\* a search from a freshly reset tree has returned after it had exhausted the
\* arena and had gone on to a further iteration that found no free slot
C25_Witness ==
    /\ FreshSearch
    /\ calls = 1
    /\ pc = "idle"
    /\ last.op = "return"
    /\ next_empty = max_nodes
    /\ completed > max_nodes - 2

----------------------------------------------------------------------------
\* the first search on a freshly reset tree has returned after one iteration, with
\* a uniform prior, on a root state from which either action ends the game
TrivialTerminal ==
    /\ last.op = "sample_root_action"
    /\ calls = 1
    /\ iter = 1
    /\ config.prior = "uniform"
    /\ config.mask = "default"
    /\ config.discount = -1
    /\ root_state.pos = Goal - 1

\* the iteration took action 0, the root has two visits and the weights are [1, 0]
TrivialTerminalCounts ==
    /\ tree.edge_map[ROOT_INDEX][0] # NULL_INDEX
    /\ \A a \in Actions \ {0} : tree.edge_map[ROOT_INDEX][a] = NULL_INDEX
    /\ tree.n[ROOT_INDEX] = 2
    /\ last.weights.den = 1
    /\ last.weights.num = [a \in Actions |-> IF a = 0 THEN 1 ELSE 0]

\* the value estimate of the evaluator for the root state
RootValueEstimate == IF config.value = "zero" THEN 0 ELSE EvalValue(root_state)

(* C26 as claimed: in the trivial-terminal scenario one iteration selects     *)
(* action 0 and leaves n[root] = 2, w[root] = +1 and the weights [1, 0].     *)
C26_TrivialTerminal ==
    TrivialTerminal => TrivialTerminalCounts /\ tree.w[ROOT_INDEX] = 1

(* C26 amended: in the trivial-terminal scenario one iteration selects action *)
(* 0 and leaves n[root] = 2, the weights [1, 0] and w[root] = v0 + 1, where  *)
(* v0 is the evaluator's value estimate of the root state.                   *)
C26_TrivialTerminalWithRootValue ==
    TrivialTerminal => TrivialTerminalCounts /\ tree.w[ROOT_INDEX] = RootValueEstimate + 1

\* the scenario with an evaluator whose estimate of the root state is not 0
C26_Witness == TrivialTerminal /\ RootValueEstimate # 0 /\ last.action = 0

----------------------------------------------------------------------------
\* the slots of the path both engines have just credited: the root down to the leaf
CreditedPath == 1 .. (last.node + 1)

(* C27 as claimed: for every path length, crediting by reward_indices adds   *)
(* to every node of the path the same signed value as the discount scheme.   *)
C27_SchemesEqual ==
    pc = "credited" => \A s \in CreditedPath : w_vals[s] = tree.w[s]

(* C27 amended: the two schemes add values of the same magnitude to every    *)
(* node of the path and to no other node; the signs agree at every node when *)
(* the leaf is at an even ply and are opposite at every node when it is at   *)
(* an odd ply, reward_indices counting the sign from the root and the        *)
(* discount from the leaf.                                                   *)
C27_SchemesEqualUpToLeafParity ==
    pc = "credited" =>
        /\ \A s \in CreditedPath :
              w_vals[s] = (IF last.node % 2 = 0 THEN 1 ELSE -1) * tree.w[s]
        /\ \A s \in CreditedPath : Abs(w_vals[s]) = Abs(last.root_w)
        /\ \A s \in Slots \ CreditedPath : w_vals[s] = 0 /\ tree.w[s] = 0

\* a nonzero value credited along a path of three plies below the root
C27_Witness ==
    /\ pc = "credited"
    /\ last.node = 3
    /\ last.root_w # 0
    /\ tree.n[4] = 1 /\ n_vals[4] = 1

----------------------------------------------------------------------------
\* the edges a step creates: entries of the edge map that go from empty to a slot
NewEdges ==
    {e \in Slots \X Actions :
        idx_action_map[e[1]][e[2]] = 0 /\ idx_action_map'[e[1]][e[2]] # 0}

\* a step of a search: its start, a scan step, or its return
SearchStep == last'.op \in {"evaluate", "iterate", "return"}

(* C29: a step of a search never decreases next_empty and raises it by at    *)
(* most 1; it raises it exactly when the step creates a child, which is then *)
(* the one edge from the node the step started at to the slot next_empty     *)
(* named; and a next_empty equal to max_nodes stays there on every step      *)
(* other than a promotion or a reset.                                        *)
C29_NextEmptyMonotone ==
    [][ /\ SearchStep =>
            /\ next_empty' \in {next_empty, next_empty + 1}
            /\ (next_empty' = next_empty + 1) <=> (NewEdges # {})
            /\ NewEdges \subseteq {<<cur_node, last'.action>>}
            /\ \A e \in NewEdges : idx_action_map'[e[1]][e[2]] = next_empty
        /\ (next_empty = max_nodes /\ last'.op \notin {"step_evaluator", "reset"})
            => next_empty' = max_nodes ]_vars

\* a scan step on an exhausted arena has just missed a child and created none
C29_Witness ==
    /\ last.op = "iterate"
    /\ last.kind = "full"
    /\ next_empty = max_nodes
    /\ idx_action_map[last.node][last.action] = 0

----------------------------------------------------------------------------
RECURSIVE TopAncestor(_, _)
\* the ancestor of slot s that is a child of the root (s itself if it is one)
TopAncestor(s, fuel) ==
    IF fuel = 0 \/ parents[s] <= 1 THEN s ELSE TopAncestor(parents[s], fuel - 1)

\* the number of edges between the root and slot s
DepthOf(s) == Cardinality(PathTo(s, max_nodes)) - 1

(* C30: after propagate_root_subtrees every allocated slot below the root    *)
(* carries the slot of its ancestor that is a child of the root (a child of  *)
(* the root carries its own slot), and slot 0, the root and the unallocated  *)
(* slots carry their own index, whatever tree the arena holds.               *)
C30_LabelsConverged ==
    pc = "labelled" =>
        /\ \A s \in 2 .. (next_empty - 1) :
              /\ subtrees[s] = TopAncestor(s, max_nodes)
              /\ parents[subtrees[s]] = 1
              /\ subtrees[s] \in PathTo(s, max_nodes)
        /\ \A s \in {0, 1} \cup (next_empty .. (max_nodes - 1)) : subtrees[s] = s

\* the arena holds a single chain of max_nodes - 1 nodes, the last of them
\* max_nodes - 2 edges below the root and labelled with the root's only child
C30_Witness ==
    /\ pc = "labelled"
    /\ next_empty = max_nodes
    /\ \A s \in 2 .. (max_nodes - 1) : parents[s] = s - 1
    /\ DepthOf(max_nodes - 1) = max_nodes - 2
    /\ subtrees[max_nodes - 1] = 2

----------------------------------------------------------------------------
RECURSIVE ParentChain(_, _, _)
\* the slots from s upwards along tree.parents, as a sequence, up to the null slot
ParentChain(t, s, fuel) ==
    IF s = NULL_INDEX \/ fuel = 0 THEN <<>>
    ELSE <<s>> \o ParentChain(t, t.parents[s], fuel - 1)

\* the parent chain of s ends at the root, whose parent is the null slot, and
\* repeats no slot
WellFounded(t, s) ==
    LET chain == ParentChain(t, s, max_nodes + 1)
    IN  /\ Len(chain) <= max_nodes
        /\ chain[Len(chain)] = ROOT_INDEX
        /\ t.parents[ROOT_INDEX] = NULL_INDEX
        /\ \A i, j \in 1 .. Len(chain) : i # j => chain[i] # chain[j]

AncestorsOf(t, s) == {ParentChain(t, s, max_nodes + 1)[i] :
                        i \in 1 .. Len(ParentChain(t, s, max_nodes + 1))}

(* C31: in every tree a step produces, the parent chain of every allocated   *)
(* node reaches the root and then the null slot without repeating a slot; an *)
(* iteration stops its traversal at a missing edge or a terminal child, at a *)
(* parent fewer plies below the root than there are allocated nodes; and its *)
(* backpropagation adds one visit to each ancestor of the node reached, one  *)
(* to that node, and none elsewhere.                                         *)
C31_LoopsTerminate ==
    [][ /\ \A s \in 1 .. (tree'.next_free - 1) : WellFounded(tree', s)
        /\ (pc = "tree_scan" /\ last'.op = "iterate") =>
              LET parent == last'.node
                  child == tree'.edge_map[parent][last'.action]
              IN  /\ \/ ~is_edge(tree, parent, last'.action)
                      \/ tree.terminal[tree.edge_map[parent][last'.action]]
                  /\ Len(ParentChain(tree, parent, max_nodes + 1)) <= tree.next_free - 1
                  /\ \A s \in Slots :
                        tree'.n[s] - tree.n[s] =
                            IF s \in AncestorsOf(tree, parent) \/ (s = child /\ s # 0)
                            THEN 1 ELSE 0 ]_vars

\* an iteration has just added a node three plies below the root
C31_Witness ==
    /\ last.op = "iterate"
    /\ last.kind = "add"
    /\ Len(ParentChain(tree, last.node, max_nodes + 1)) = 3
    /\ tree.n[ROOT_INDEX] >= 4

----------------------------------------------------------------------------
\* every allocated slot below the root has an allocated parent of lower index
ParentsBelowChildren(par, bound) ==
    \A s \in 2 .. (bound - 1) : par[s] >= 1 /\ par[s] < s

(* C32: in every state a step produces, searches and promotions in any order, *)
(* every allocated non-root slot s has 1 <= parents[s] < s; and a promotion  *)
(* of a populated child moves that child, with its counts, to slot 1.        *)
C32_ParentIndexBelowChild ==
    [][ /\ ParentsBelowChildren(parents', next_empty')
        /\ (last'.op = "step_evaluator" /\ last'.kind = "populated") =>
              /\ n_vals'[1] = n_vals[last'.node]
              /\ w_vals'[1] = w_vals[last'.node]
              /\ parents'[1] = 0 ]_vars

\* a promotion has just kept a subtree with a node two plies below the new root
C32_Witness ==
    /\ last.op = "step_evaluator"
    /\ last.kind = "populated"
    /\ next_empty >= 4
    /\ \E s \in 3 .. (next_empty - 1) : parents[s] > 1

----------------------------------------------------------------------------
\* no slot of the arena holds anything, slots 0 and 1 included
ArenaEmpty ==
    /\ \A s \in Slots :
          /\ n_vals[s] = 0
          /\ w_vals[s] = 0
          /\ parents[s] = 0
          /\ \A a \in Actions : p_vals[s][a] = 0 /\ idx_action_map[s][a] = 0
    /\ next_empty = 2

(* C33: after the promotion of an action under which the root had no child,  *)
(* the game going on, every n, w, p, edge and parent entry of the arena is   *)
(* zero, those of slot 1 too, and next_empty = 2.                            *)
C33_PromoteMissingChild ==
    (last.op = "step_evaluator" /\ last.kind = "empty") => ArenaEmpty

\* the promotion of an unexpanded action straight after the first search, which
\* had run a scan step and so had left a visited root with priors and a child
C33_Witness ==
    /\ last.op = "step_evaluator"
    /\ last.kind = "empty"
    /\ calls = 2
    /\ iter >= 1

----------------------------------------------------------------------------
\* a step leaves the counts, the values, the allocation pointer and the edges alone
StatisticsUnchanged ==
    /\ n_vals' = n_vals
    /\ w_vals' = w_vals
    /\ next_empty' = next_empty
    /\ idx_action_map' = idx_action_map

(* C34: a scan step that descends to an existing child without reaching a    *)
(* leaf changes no n, w, edge or next_empty, so that a traversal cut off     *)
(* below the root has changed none since it started; the return of evaluate  *)
(* changes none either and leaves cur_node = 1; and every evaluate starts    *)
(* its scan at depth 1 with a path record that holds the root alone.         *)
C34_CutOffDescentLeavesNoTrace ==
    [][ /\ (last'.op = "iterate" /\ last'.kind = "descend") => StatisticsUnchanged
        /\ last'.op = "return" => StatisticsUnchanged /\ cur_node' = 1
        /\ last'.op = "evaluate" =>
              /\ depth' = 1
              /\ cur_node' = 1
              /\ visits' = [k \in Plies |-> IF k = 0 THEN 1 ELSE 0]
              /\ n_vals' = n_vals /\ w_vals' = w_vals
              /\ next_empty' = next_empty /\ idx_action_map' = idx_action_map ]_vars

\* evaluate has returned while its last traversal was two plies below the root
C34_Witness ==
    /\ last.op = "return"
    /\ pc = "idle"
    /\ depth = 3
    /\ visits[1] > 1 /\ visits[2] > 1
    /\ cur_node = 1

----------------------------------------------------------------------------
\* the allocated slots below the root whose node is not terminal
LiveBelowRoot(t) == {s \in 2 .. (t.next_free - 1) : ~t.terminal[s]}

(* C35: an iteration that finds the child it was sent to already in the tree *)
(* finds a terminal child; and no step changes the prior, the terminal flag  *)
(* or the embedding of a non-terminal node below the root.                   *)
C35_UpdateOnlyTerminal ==
    [][ /\ (pc = "tree_scan" /\ last'.op = "iterate"
                /\ is_edge(tree, last'.node, last'.action))
            => /\ tree.terminal[tree.edge_map[last'.node][last'.action]]
               /\ last'.kind = "update"
        /\ \A s \in LiveBelowRoot(tree) :
              /\ tree'.p[s] = tree.p[s]
              /\ tree'.terminal[s] = tree.terminal[s]
              /\ tree'.embedding[s] = tree.embedding[s] ]_vars

\* an iteration has just updated a terminal child two plies below the root or
\* deeper, in a tree that holds non-terminal nodes below the root
C35_Witness ==
    /\ last.op = "iterate"
    /\ last.kind = "update"
    /\ last.node > ROOT_INDEX
    /\ tree.terminal[tree.edge_map[last.node][last.action]]
    /\ tree.n[tree.edge_map[last.node][last.action]] >= 2
    /\ LiveBelowRoot(tree) # {}

====
